---- MODULE Spec2Model ----
(***************************************************************************)
(* A model of src/main.py: the tabular record store of one company tab     *)
(* (PandasModel / CompanyTab), the running total, the CSV export write     *)
(* sequence, the import and the profile load.                              *)
(*                                                                         *)
(* Python text is a sequence of one-character strings; the characters that *)
(* have no printable form are named: "TAB", "LF", "CR", "NBSP" (U+00A0).   *)
(* A Python value stored in a cell is a record [kind, s]: kind is "str",   *)
(* "int" or "none" and s is what str() returns for the value.              *)
(***************************************************************************)
EXTENDS Integers, Sequences, FiniteSets, TLC

VARIABLES
    hasTab,     \* the window holds the company tab (MainWindow.tabs.count() > 0)
    df,         \* CompanyTab.model._df: [index, rows]
    total,      \* CompanyTab.total_label text
    path,       \* CompanyTab.path_edit text
    pc,         \* position inside export_csv: "idle" between handlers
    work,       \* export_csv's local df, the copy being written; kept after
                \* the handler as the record of what the last export wrote
    bad,        \* export_csv's local list of IBAN warnings
    shown,      \* the warnings the validation dialog showed (bad[:5])
    dest,       \* the file at the destination path
    tmp,        \* the file at path + ".tmp"
    dest0,      \* history: the destination file when the current export began
    op,         \* history: the last handler that ran, with its arguments
    ret,        \* history: what that handler returned or reported
    edits,      \* number of cell edits made so far
    exports,    \* number of exports started so far
    faults,     \* number of I/O errors and crashes injected so far
    m_in,       \* money_to_csv study: the input text
    m_once,     \* money_to_csv(m_in)
    m_twice,    \* money_to_csv(money_to_csv(m_in))
    m_pc        \* how many times money_to_csv has been applied

storeVars == <<hasTab, df, total, path, op, ret, edits>>
exportVars == <<pc, work, bad, shown, dest, tmp, dest0, exports, faults>>
moneyVars == <<m_in, m_once, m_twice, m_pc>>
vars == <<hasTab, df, total, path, pc, work, bad, shown, dest, tmp, dest0,
          op, ret, edits, exports, faults, m_in, m_once, m_twice, m_pc>>

----------------------------------------------------------------------------
(* Bounds of the exploration.                                              *)

MaxRows == 2
MaxEdits == 1
MaxExports == 2
MaxFaults == 2
MaxLen == 4

----------------------------------------------------------------------------
(* Python text.                                                            *)

Digits == <<"0", "1", "2", "3", "4", "5", "6", "7", "8", "9">>
DigitSet == {Digits[i] : i \in 1..10}
Upper == <<"A", "B", "C", "D", "E", "F", "G", "H", "I", "J", "K", "L", "M",
           "N", "O", "P", "Q", "R", "S", "T", "U", "V", "W", "X", "Y", "Z">>
Lower == <<"a", "b", "c", "d", "e", "f", "g", "h", "i", "j", "k", "l", "m",
           "n", "o", "p", "q", "r", "s", "t", "u", "v", "w", "x", "y", "z">>
UpperSet == {Upper[i] : i \in 1..26}
LowerSet == {Lower[i] : i \in 1..26}

\* str.lower()
ToLower(s) ==
    [i \in 1..Len(s) |->
        IF s[i] \in UpperSet THEN Lower[CHOOSE k \in 1..26 : Upper[k] = s[i]] ELSE s[i]]

\* str.endswith(suffix)
EndsWith(s, suffix) ==
    Len(s) >= Len(suffix) /\ SubSeq(s, Len(s) - Len(suffix) + 1, Len(s)) = suffix

\* str.isspace() of one character
IsSpace(c) == c \in {" ", "TAB", "LF", "CR", "NBSP"}

\* str.strip()
RECURSIVE LStrip(_)
LStrip(s) == IF s # <<>> /\ IsSpace(Head(s)) THEN LStrip(Tail(s)) ELSE s

RECURSIVE RStrip(_)
RStrip(s) ==
    IF s # <<>> /\ IsSpace(s[Len(s)]) THEN RStrip(SubSeq(s, 1, Len(s) - 1)) ELSE s

Strip(s) == RStrip(LStrip(s))

\* str.replace(old, new) for a one-character old
RECURSIVE Replace(_, _, _)
Replace(s, old, new) ==
    IF s = <<>> THEN <<>>
    ELSE (IF Head(s) = old THEN new ELSE <<Head(s)>>) \o Replace(Tail(s), old, new)

\* str.isdigit() on the characters modelled
IsDigitStr(s) == s # <<>> /\ \A i \in 1..Len(s) : s[i] \in DigitSet

DigitVal(c) == CHOOSE i \in 0..9 : Digits[i + 1] = c

\* int(s) for a string of digits
RECURSIVE StrToInt(_)
StrToInt(s) ==
    IF s = <<>> THEN 0
    ELSE 10 * StrToInt(SubSeq(s, 1, Len(s) - 1)) + DigitVal(s[Len(s)])

\* str(n) for n >= 0
RECURSIVE IntToStr(_)
IntToStr(n) ==
    IF n < 10 THEN <<Digits[n + 1]>> ELSE IntToStr(n \div 10) \o <<Digits[(n % 10) + 1]>>

\* Python values
StrV(s) == [kind |-> "str", s |-> s]
IntV(n) == [kind |-> "int", s |-> IntToStr(n)]
NoneV == [kind |-> "none", s |-> <<"N", "o", "n", "e">>]
PyStr(x) == x.s
IsNa(x) == x.kind = "none"

----------------------------------------------------------------------------
(* money_to_csv, main.py 30-36.                                            *)

money_to_csv_keep_dots(x) ==
    LET s1 == Strip(PyStr(x)) IN
    IF s1 = <<>> THEN <<>>
    ELSE Replace(Replace(Replace(s1, " ", <<>>), "NBSP", <<>>), ",", <<".">>)

money_to_csv(x) ==
    LET s1 == Strip(PyStr(x)) IN
    IF s1 = <<>> THEN <<>>
    ELSE LET s2 == Replace(Replace(s1, " ", <<>>), "NBSP", <<>>)
             s3 == Replace(Replace(Replace(s2, ".", <<"#">>), ",", <<".">>), "#", <<>>)
         IN s3

----------------------------------------------------------------------------
(* The schema and the data frame, main.py 20-26, 104.                      *)

COLUMNS == <<"PO_No.", "Amount", "CCY/RON", "Payer Account IBAN",
             "Payee Name", "Payee address 1", "Payee address 2",
             "Payee CUI", "Payee Account IBAN",
             "Details 1", "Details 2", "Details 3",
             "Processing date", "Processing Method">>
NCols == Len(COLUMNS)
ColSet == {COLUMNS[i] : i \in 1..NCols}

\* pandas RangeIndex(n): the labels 0..n-1
RangeIndex(n) == [i \in 1..n |-> i - 1]

\* pd.DataFrame(columns=COLUMNS)
EmptyDf == [index |-> <<>>, rows |-> <<>>]

\* one row of empty text, the [""] * columnCount() of insertRows
BlankRow == [c \in ColSet |-> StrV(<<>>)]

NRows(d) == Len(d.rows)

Min(a, b) == IF a < b THEN a ELSE b
Max(a, b) == IF a > b THEN a ELSE b

\* Python's seq[lo:hi] for lo, hi >= 0 (0-based, hi exclusive, clamped)
Slice(s, lo, hi) == SubSeq(s, Min(lo, Len(s)) + 1, Min(hi, Len(s)))

\* the positions (1-based) of the rows carrying a label
LabelPos(d, label) == {i \in 1..Len(d.index) : d.index[i] = label}

----------------------------------------------------------------------------
(* update_total, main.py 265-276.  Amounts are counted in hundredths; the  *)
(* parse is exact for up to two fractional digits, which is all the        *)
(* modelled inputs carry.                                                  *)

\* float(s): [ok, val], val in hundredths
PyFloat(s) ==
    LET t == Strip(s)
        signed == t # <<>> /\ Head(t) \in {"-", "+"}
        neg == t # <<>> /\ Head(t) = "-"
        u == IF signed THEN Tail(t) ELSE t
        dots == {i \in 1..Len(u) : u[i] = "."}
        d == IF dots = {} THEN Len(u) + 1 ELSE CHOOSE i \in dots : TRUE
        ip == SubSeq(u, 1, d - 1)
        fp == SubSeq(u, d + 1, Len(u))
        allDigits(w) == \A i \in 1..Len(w) : w[i] \in DigitSet
        ok == /\ Cardinality(dots) <= 1
              /\ allDigits(ip) /\ allDigits(fp)
              /\ Len(ip) + Len(fp) >= 1
        frac == IF Len(fp) = 0 THEN 0
                ELSE IF Len(fp) = 1 THEN 10 * DigitVal(fp[1])
                ELSE StrToInt(SubSeq(fp, 1, 2))
        mag == StrToInt(ip) * 100 + frac
    IN  IF ok THEN [ok |-> TRUE, val |-> IF neg THEN 0 - mag ELSE mag]
        ELSE [ok |-> FALSE, val |-> 0]

\* the loop of update_total over df["Amount"].tolist()
RECURSIVE SumAmounts(_)
SumAmounts(rows) ==
    IF rows = <<>> THEN 0
    ELSE LET x == rows[Len(rows)]["Amount"]
             rest == SumAmounts(SubSeq(rows, 1, Len(rows) - 1))
         IN  IF Strip(PyStr(x)) # <<>>
             THEN LET f == PyFloat(money_to_csv(x))
                  IN  IF f.ok THEN rest + f.val ELSE rest
             ELSE rest

\* the integer part with "," every three digits, as f"{s:,.2f}" groups it
RECURSIVE Grouped(_)
Grouped(n) ==
    IF n < 1000 THEN IntToStr(n)
    ELSE LET r == n % 1000
             pad == IF r < 10 THEN <<"0", "0">> ELSE IF r < 100 THEN <<"0">> ELSE <<>>
         IN  Grouped(n \div 1000) \o <<",">> \o pad \o IntToStr(r)

\* f"Total: {s:,.2f}".replace(",", "X").replace(".", ",").replace("X", ".")
FormatTotal(cents) ==
    LET mag == IF cents < 0 THEN 0 - cents ELSE cents
        c == mag % 100
        py == (IF cents < 0 THEN <<"-">> ELSE <<>>)
              \o Grouped(mag \div 100) \o <<".">>
              \o (IF c < 10 THEN <<"0">> ELSE <<>>) \o IntToStr(c)
        text == <<"T", "o", "t", "a", "l", ":", " ">> \o py
    IN  Replace(Replace(Replace(text, ",", <<"X">>), ".", <<",">>), "X", <<".">>)

update_total(d) == FormatTotal(SumAmounts(d.rows))

----------------------------------------------------------------------------
(* PandasModel, main.py 71-96.                                             *)

\* _df.iat[row, column] = value
SetCell(d, r, c, v) ==
    [d EXCEPT !.rows = [d.rows EXCEPT ![r + 1] = [d.rows[r + 1] EXCEPT ![c] = v]]]

InsertRowsDf_AtEnd(d, position, rows) ==
    LET n == NRows(d) + rows
    IN  [index |-> RangeIndex(n),
         rows |-> d.rows \o [i \in 1..rows |-> BlankRow]]

\* pd.concat([top, empty, bottom], ignore_index=True)
InsertRowsDf(d, position, rows) ==
    LET top == Slice(d.rows, 0, position)
        bottom == Slice(d.rows, position, NRows(d))
        empty == [i \in 1..rows |-> BlankRow]
        all == top \o empty \o bottom
    IN  [index |-> RangeIndex(Len(all)), rows |-> all]

\* _df.drop(_df.index[position:position + rows]).reset_index(drop=True)
RemoveRowsDf(d, position, rows) ==
    LET labels == {d.index[i] : i \in (position + 1)..Min(position + rows, NRows(d))}
        keep == {i \in 1..NRows(d) : d.index[i] \notin labels}
        RECURSIVE Pick(_)
        Pick(i) == IF i > NRows(d) THEN <<>>
                   ELSE (IF i \in keep THEN <<d.rows[i]>> ELSE <<>>) \o Pick(i + 1)
        left == Pick(1)
    IN  [index |-> RangeIndex(Len(left)), rows |-> left]

removeRows_rejects_past_end(d, position) == position < 0 \/ position > NRows(d)

\* the guard of removeRows, main.py 90
removeRows_rejects(d, position) == position < 0 \/ position >= NRows(d)

\* the PO_No. rule of add_row, main.py 189-197, on the frame after insertRows
AddRowFill(d, position) ==
    IF position > 0
    THEN IF LabelPos(d, position - 1) = {} \/ LabelPos(d, position) = {}
         THEN d     \* KeyError, swallowed by except: pass
         ELSE LET prev == d.rows[CHOOSE i \in LabelPos(d, position - 1) : TRUE]["PO_No."]
                  n == IF IsDigitStr(PyStr(prev)) THEN StrToInt(PyStr(prev))
                       ELSE position + 1
              IN  SetCell(d, (CHOOSE i \in LabelPos(d, position) : TRUE) - 1,
                          "PO_No.", IntV(n))
    ELSE IF LabelPos(d, position) = {} THEN d
         ELSE SetCell(d, (CHOOSE i \in LabelPos(d, position) : TRUE) - 1,
                      "PO_No.", IntV(1))

----------------------------------------------------------------------------
(* export_csv up to the write, main.py 225-251.                            *)

\* IBAN_REGEX.match(s), main.py 28: ^RO[A-Z0-9]{2,}$ with re.IGNORECASE;
\* "$" also matches just before a newline that ends the text
IbanCore(s) ==
    /\ Len(s) >= 4
    /\ s[1] \in {"R", "r"}
    /\ s[2] \in {"O", "o"}
    /\ \A i \in 3..Len(s) : s[i] \in UpperSet \cup LowerSet \cup DigitSet

IBAN_REGEX_match(s) ==
    \/ IbanCore(s)
    \/ s # <<>> /\ s[Len(s)] = "LF" /\ IbanCore(SubSeq(s, 1, Len(s) - 1))

\* lambda x: str(x).replace("\r", " ").replace("\n", " ").strip()
CleanCell(x) == StrV(Strip(Replace(Replace(PyStr(x), "CR", <<" ">>), "LF", <<" ">>)))

\* the copy of the rows after the Amount map and the CR/LF map
ExportCopy(rows) ==
    [i \in 1..Len(rows) |->
        [c \in ColSet |->
            IF c = "Amount" THEN CleanCell(StrV(money_to_csv(rows[i][c])))
            ELSE CleanCell(rows[i][c])]]

\* the warnings of one column, rows in order: (i + 1, col)
RECURSIVE BadOf(_, _, _)
BadOf(w, col, i) ==
    IF i > Len(w) THEN <<>>
    ELSE LET v == Strip(PyStr(w[i][col]))
         IN  (IF v # <<>> /\ ~IBAN_REGEX_match(v) THEN <<<<i, col>>>> ELSE <<>>)
             \o BadOf(w, col, i + 1)

BadList(w) == BadOf(w, "Payer Account IBAN", 1) \o BadOf(w, "Payee Account IBAN", 1)

\* what to_csv writes for one row: the 14 cell texts in column order
RenderRow(row) == [j \in 1..NCols |-> PyStr(row[COLUMNS[j]])]
Render(w) == [i \in 1..Len(w) |-> RenderRow(w[i])]

\* files: absent, or the rows written so far and whether the writer finished
NoFile == [exists |-> FALSE, data |-> <<>>, complete |-> FALSE]
OpenedFile == [exists |-> TRUE, data |-> <<>>, complete |-> FALSE]
WholeFile(w) == [exists |-> TRUE, data |-> Render(w), complete |-> TRUE]

----------------------------------------------------------------------------
(* Inputs: the cell edits, the paths, the files to import, the profiles.   *)

T_7 == <<"7">>
T_ab == <<"a", "b">>
T_10_00 == <<"1", "0", ",", "0", "0">>
T_5_50 == <<"5", ",", "5", "0">>
T_abc == <<"a", "b", "c">>
T_1000_50 == <<" ", "1", ".", "0", "0", "0", ",", "5", "0">>
T_Ro12 == <<"R", "o", "1", "2">>
T_FR14 == <<"F", "R", "1", "4">>
T_RO1 == <<"R", "O", "1">>
T_ro1x_sp == <<" ", "r", "o", "1", "x", " ">>
T_RO_dash == <<"R", "O", "1", "-", "2">>
T_two_lines == <<"a", "CR", "LF", "b">>
T_csv == <<".", "c", "s", "v">>
T_out == <<"o">>
T_blank == <<" ">>

\* what the user types into a cell: (column, text)
StoreEdits == { <<"PO_No.", T_ab>>, <<"Amount", T_1000_50>> }

\* what the save dialog returns (empty: cancelled)
DialogPaths == { <<>>, T_out }
\* what the user types into the path field
TypedPaths == { T_blank }

\* the files offered to load_data
ImportFiles ==
    << [readable |-> TRUE,
        cols |-> <<"Amount", "Extra", "PO_No.">>,
        rows |-> << <<StrV(T_10_00), StrV(<<"x">>), StrV(T_7)>>,
                    <<StrV(T_abc), StrV(<<>>), StrV(<<>>)>>,
                    <<StrV(T_5_50), StrV(<<"x">>), StrV(T_ab)>> >>],
       [readable |-> TRUE,
        cols |-> <<"Payee Account IBAN", "Details 1", "Payer Account IBAN", "Amount">>,
        rows |-> << <<StrV(T_RO_dash), StrV(T_two_lines), StrV(T_ro1x_sp), StrV(T_1000_50)>>,
                    <<NoneV, NoneV, StrV(T_RO1), NoneV>>,
                    <<StrV(T_Ro12), StrV(<<>>), StrV(T_FR14), StrV(T_10_00)>> >>],
       [readable |-> FALSE, cols |-> <<>>, rows |-> <<>>] >>

\* which of them each specification offers (0: the dialog is cancelled)
StoreImports == {0, 1, 3}
ExportImports == {0, 2, 3}

\* one row array of a profile: n entries
ProfileRow(n, po, amount, payer) ==
    [j \in 1..n |->
        IF j = 1 THEN StrV(po) ELSE IF j = 2 THEN StrV(amount)
        ELSE IF j = 4 THEN StrV(payer) ELSE IF j > NCols THEN StrV(<<"x">>)
        ELSE StrV(<<>>)]

\* the profile documents offered to load_profile (one company each, or none)
Profiles ==
    << [readable |-> TRUE,
        comps |-> << [path |-> T_out \o T_csv,
                      rows |-> << ProfileRow(NCols, T_7, T_10_00, T_Ro12),
                                  ProfileRow(1, T_ab, <<>>, <<>>) >>] >>],
       [readable |-> TRUE,
        comps |-> << [path |-> <<>>,
                      rows |-> << ProfileRow(NCols - 1, T_7, T_10_00, <<>>) >>] >>],
       [readable |-> TRUE,
        comps |-> << [path |-> <<>>,
                      rows |-> << ProfileRow(NCols + 1, T_7, T_10_00, <<>>) >>] >>],
       [readable |-> TRUE, comps |-> <<>>],
       [readable |-> FALSE, comps |-> <<>>] >>

----------------------------------------------------------------------------
(* load_data, main.py 204-223, and load_profile, main.py 348-372.          *)

\* the coercion of a read file: missing columns "", extra ones dropped,
\* canonical order, fillna("")
ImportFrame(f) ==
    LET colset == {f.cols[j] : j \in 1..Len(f.cols)}
        cell(i, c) == f.rows[i][CHOOSE j \in 1..Len(f.cols) : f.cols[j] = c]
    IN  [index |-> RangeIndex(Len(f.rows)),
         rows |-> [i \in 1..Len(f.rows) |->
                     [c \in ColSet |->
                        IF c \notin colset THEN StrV(<<>>)
                        ELSE IF IsNa(cell(i, c)) THEN StrV(<<>>) ELSE cell(i, c)]]]

\* the widest row array
RECURSIVE Widest(_)
Widest(rows) ==
    IF rows = <<>> THEN 0 ELSE Max(Len(Head(rows)), Widest(Tail(rows)))

\* pd.DataFrame(rows, columns=COLUMNS): row arrays are padded with None to
\* the widest one, and a width other than len(COLUMNS) raises ValueError
ProfileFrame(rows) ==
    IF rows = <<>> THEN [ok |-> TRUE, df |-> EmptyDf]
    ELSE IF Widest(rows) # NCols THEN [ok |-> FALSE, df |-> EmptyDf]
    ELSE [ok |-> TRUE,
          df |-> [index |-> RangeIndex(Len(rows)),
                  rows |-> [i \in 1..Len(rows) |->
                              [c \in ColSet |->
                                 LET j == CHOOSE k \in 1..NCols : COLUMNS[k] = c
                                 IN  IF j <= Len(rows[i]) THEN rows[i][j] ELSE NoneV]]]]

----------------------------------------------------------------------------
(* The state after MainWindow.__init__, main.py 279-303.                   *)

Op(name, a, b) == [name |-> name, a |-> a, b |-> b]

\* CompanyTab.__init__: an empty frame, update_total() run once (line 165)
FreshTab ==
    /\ hasTab' = TRUE
    /\ df' = EmptyDf
    /\ total' = update_total(EmptyDf)
    /\ path' = <<>>

MoneyOff ==
    /\ m_in = <<>>
    /\ m_once = <<>>
    /\ m_twice = <<>>
    /\ m_pc = "off"

Init ==
    /\ hasTab = TRUE
    /\ df = EmptyDf
    /\ total = update_total(EmptyDf)
    /\ path = <<>>
    /\ pc = "idle"
    /\ work = <<>>
    /\ bad = <<>>
    /\ shown = <<>>
    /\ dest = NoFile
    /\ tmp = NoFile
    /\ dest0 = NoFile
    /\ op = Op("init", 0, 0)
    /\ ret = "none"
    /\ edits = 0
    /\ exports = 0
    /\ faults = 0
    /\ MoneyOff

\* a handler runs on the tab only between handlers (one thread, main.py 374-378)
CanHandle == hasTab /\ pc = "idle"

----------------------------------------------------------------------------
(* The handlers of the record store.                                       *)

SetData_NoSignal(valid, r, c, v) ==
    /\ CanHandle
    /\ op' = Op("setData", r, 0)
    /\ IF valid
       THEN /\ edits < MaxEdits
            /\ r \in 0..(NRows(df) - 1)
            /\ df' = SetCell(df, r, c, StrV(v))
            /\ ret' = "True"
            /\ edits' = edits + 1
            /\ UNCHANGED total
       ELSE /\ ret' = "False"
            /\ UNCHANGED <<df, total, edits>>
    /\ UNCHANGED <<hasTab, path>>
    /\ UNCHANGED exportVars
    /\ UNCHANGED moneyVars

\* PandasModel.setData, main.py 71-77; dataChangedSignal runs update_total
SetData(valid, r, c, v) ==
    /\ CanHandle
    /\ op' = Op("setData", r, 0)
    /\ IF valid
       THEN /\ edits < MaxEdits
            /\ r \in 0..(NRows(df) - 1)
            /\ df' = SetCell(df, r, c, StrV(v))
            /\ total' = update_total(df')
            /\ ret' = "True"
            /\ edits' = edits + 1
       ELSE /\ ret' = "False"
            /\ UNCHANGED <<df, total, edits>>
    /\ UNCHANGED <<hasTab, path>>
    /\ UNCHANGED exportVars
    /\ UNCHANGED moneyVars

\* PandasModel.insertRows, main.py 79-87
InsertRows(position, rows) ==
    /\ CanHandle
    /\ position \in 0..NRows(df)
    /\ NRows(df) + rows <= MaxRows
    /\ df' = InsertRowsDf(df, position, rows)
    /\ total' = update_total(df')
    /\ op' = Op("insertRows", position, rows)
    /\ ret' = "True"
    /\ UNCHANGED <<hasTab, path, edits>>
    /\ UNCHANGED exportVars
    /\ UNCHANGED moneyVars

\* PandasModel.removeRows, main.py 89-96
RemoveRows(position, rows) ==
    /\ CanHandle
    /\ op' = Op("removeRows", position, 0)
    /\ IF removeRows_rejects(df, position)
       THEN /\ ret' = "False"
            /\ UNCHANGED <<df, total>>
       ELSE /\ df' = RemoveRowsDf(df, position, rows)
            /\ total' = update_total(df')
            /\ ret' = "True"
    /\ UNCHANGED <<hasTab, path, edits>>
    /\ UNCHANGED exportVars
    /\ UNCHANGED moneyVars

\* CompanyTab.add_row, main.py 184-197: the signal of insertRows runs
\* update_total before PO_No. is written
AddRow(position) ==
    /\ CanHandle
    /\ position \in 0..NRows(df)
    /\ NRows(df) < MaxRows
    /\ LET d1 == InsertRowsDf(df, position, 1)
       IN  /\ total' = update_total(d1)
           /\ df' = AddRowFill(d1, position)
    /\ op' = Op("add_row", position, 1)
    /\ ret' = "none"
    /\ UNCHANGED <<hasTab, path, edits>>
    /\ UNCHANGED exportVars
    /\ UNCHANGED moneyVars

\* CompanyTab.delete_selected, main.py 199-202; r = -1: no current index
DeleteSelected(r) ==
    /\ CanHandle
    /\ r \in (0 - 1)..(NRows(df) - 1)
    /\ op' = Op("delete_selected", r, 1)
    /\ ret' = "none"
    /\ IF r >= 0 /\ ~removeRows_rejects(df, r)
       THEN /\ df' = RemoveRowsDf(df, r, 1)
            /\ total' = update_total(df')
       ELSE UNCHANGED <<df, total>>
    /\ UNCHANGED <<hasTab, path, edits>>
    /\ UNCHANGED exportVars
    /\ UNCHANGED moneyVars

\* CompanyTab.load_data, main.py 204-223; k = 0: the dialog was cancelled
LoadData(k) ==
    /\ CanHandle
    /\ k \in 0..Len(ImportFiles)
    /\ op' = Op("load_data", k, 0)
    /\ IF k = 0
       THEN /\ ret' = "cancelled"
            /\ UNCHANGED <<df, total>>
       ELSE IF ~ImportFiles[k].readable
       THEN /\ ret' = "import_error"
            /\ UNCHANGED <<df, total>>
       ELSE /\ df' = ImportFrame(ImportFiles[k])
            /\ total' = update_total(df')
            /\ ret' = "imported"
    /\ UNCHANGED <<hasTab, path, edits>>
    /\ UNCHANGED exportVars
    /\ UNCHANGED moneyVars

\* MainWindow.load_profile, main.py 348-372; k = 0: the dialog was cancelled.
\* An exception leaves the handler after tabs.clear(), before addTab.
LoadProfile(k) ==
    /\ pc = "idle"
    /\ k \in 0..Len(Profiles)
    /\ op' = Op("load_profile", k, 0)
    /\ IF k = 0
       THEN /\ ret' = "cancelled"
            /\ UNCHANGED <<hasTab, df, total, path>>
       ELSE IF ~Profiles[k].readable
       THEN /\ ret' = "raised"
            /\ UNCHANGED <<hasTab, df, total, path>>
       ELSE IF Profiles[k].comps = <<>>
       THEN /\ ret' = "loaded"
            /\ FreshTab
       ELSE LET comp == Profiles[k].comps[1]
                f == ProfileFrame(comp.rows)
            IN  IF f.ok
                THEN /\ hasTab' = TRUE
                     /\ df' = f.df
                     /\ total' = update_total(f.df)
                     /\ path' = comp.path
                     /\ ret' = "loaded"
                ELSE /\ hasTab' = FALSE
                     /\ df' = EmptyDf
                     /\ total' = update_total(EmptyDf)
                     /\ path' = <<>>
                     /\ ret' = "raised"
    /\ UNCHANGED edits
    /\ UNCHANGED exportVars
    /\ UNCHANGED moneyVars

\* MainWindow.add_company_tab, main.py 305-309, when no tab is left
AddCompanyTab ==
    /\ pc = "idle"
    /\ ~hasTab
    /\ FreshTab
    /\ op' = Op("add_company_tab", 0, 0)
    /\ ret' = "none"
    /\ UNCHANGED edits
    /\ UNCHANGED exportVars
    /\ UNCHANGED moneyVars

\* MainWindow.remove_tab, main.py 316-325, confirmed: the last tab is
\* removed and a fresh one added
RemoveTab ==
    /\ CanHandle
    /\ FreshTab
    /\ op' = Op("remove_tab", 0, 0)
    /\ ret' = "none"
    /\ UNCHANGED edits
    /\ UNCHANGED exportVars
    /\ UNCHANGED moneyVars

\* CompanyTab.choose_path, main.py 171-176
ChoosePath(sel) ==
    /\ CanHandle
    /\ op' = Op("choose_path", 0, 0)
    /\ ret' = "none"
    /\ IF sel # <<>>
       THEN path' = IF EndsWith(ToLower(sel), T_csv) THEN sel ELSE sel \o T_csv
       ELSE UNCHANGED path
    /\ UNCHANGED <<hasTab, df, total, edits>>
    /\ UNCHANGED exportVars
    /\ UNCHANGED moneyVars

\* the user types into path_edit, main.py 123
TypePath(p) ==
    /\ CanHandle
    /\ path' = p
    /\ op' = Op("type_path", 0, 0)
    /\ ret' = "none"
    /\ UNCHANGED <<hasTab, df, total, edits>>
    /\ UNCHANGED exportVars
    /\ UNCHANGED moneyVars

----------------------------------------------------------------------------
(* export_csv, main.py 225-263, one action per step of the write sequence. *)

ExportBegin_BlockOnWarnings ==
    /\ CanHandle
    /\ op' = Op("export_csv", 0, 0)
    /\ IF Strip(path) = <<>>
       THEN /\ ret' = "no_path"
            /\ UNCHANGED <<pc, work, bad, shown, dest0, exports>>
       ELSE /\ exports < MaxExports
            /\ work' = ExportCopy(df.rows)
            /\ bad' = BadList(work')
            /\ shown' = Slice(bad', 0, 5)
            /\ dest0' = dest
            /\ pc' = IF bad' # <<>> THEN "idle" ELSE "open_tmp"
            /\ ret' = IF bad' # <<>> THEN "blocked" ELSE "running"
            /\ exports' = exports + 1
    /\ UNCHANGED <<hasTab, df, total, path, edits, dest, tmp, faults>>
    /\ UNCHANGED moneyVars

ExportBegin_InPlace ==
    /\ CanHandle
    /\ op' = Op("export_csv", 0, 0)
    /\ IF Strip(path) = <<>>
       THEN /\ ret' = "no_path"
            /\ UNCHANGED <<pc, work, bad, shown, dest0, exports, df>>
       ELSE /\ exports < MaxExports
            /\ work' = ExportCopy(df.rows)
            /\ df' = [df EXCEPT !.rows = work']
            /\ bad' = BadList(work')
            /\ shown' = Slice(bad', 0, 5)
            /\ dest0' = dest
            /\ pc' = "open_tmp"
            /\ ret' = "running"
            /\ exports' = exports + 1
    /\ UNCHANGED <<hasTab, total, path, edits, dest, tmp, faults>>
    /\ UNCHANGED moneyVars

\* lines 226-251: the path check, the copy, the two maps, the IBAN warnings
\* and their dialog; nothing is written yet
ExportBegin ==
    /\ CanHandle
    /\ op' = Op("export_csv", 0, 0)
    /\ IF Strip(path) = <<>>
       THEN /\ ret' = "no_path"
            /\ UNCHANGED <<pc, work, bad, shown, dest0, exports>>
       ELSE /\ exports < MaxExports
            /\ work' = ExportCopy(df.rows)
            /\ bad' = BadList(work')
            /\ shown' = Slice(bad', 0, 5)
            /\ dest0' = dest
            /\ pc' = "open_tmp"
            /\ ret' = "running"
            /\ exports' = exports + 1
    /\ UNCHANGED <<hasTab, df, total, path, edits, dest, tmp, faults>>
    /\ UNCHANGED moneyVars

ExportStepFrame ==
    /\ UNCHANGED <<hasTab, df, total, path, op, edits>>
    /\ UNCHANGED <<work, bad, shown, dest0, exports>>
    /\ UNCHANGED moneyVars

ExportOpenTmp_InPlace ==
    /\ pc = "open_tmp"
    /\ dest' = OpenedFile
    /\ pc' = "writing"
    /\ UNCHANGED <<tmp, ret, faults>>
    /\ ExportStepFrame

\* line 255, to_csv opens path + ".tmp" for writing: created or truncated
ExportOpenTmp ==
    /\ pc = "open_tmp"
    /\ tmp' = OpenedFile
    /\ pc' = "writing"
    /\ UNCHANGED <<dest, ret, faults>>
    /\ ExportStepFrame

\* line 255, to_csv writes the next row
ExportWriteRow ==
    /\ pc = "writing"
    /\ Len(tmp.data) < Len(work)
    /\ tmp' = [tmp EXCEPT !.data = Append(tmp.data, RenderRow(work[Len(tmp.data) + 1]))]
    /\ UNCHANGED <<pc, dest, ret, faults>>
    /\ ExportStepFrame

\* line 255, to_csv has written every row and closes the file
ExportCloseTmp ==
    /\ pc = "writing"
    /\ Len(tmp.data) = Len(work)
    /\ tmp' = [tmp EXCEPT !.complete = TRUE]
    /\ pc' = "exists"
    /\ UNCHANGED <<dest, ret, faults>>
    /\ ExportStepFrame

\* lines 256-257: if os.path.exists(path): os.remove(path)
ExportRemoveOld ==
    /\ pc = "exists"
    /\ dest' = IF dest.exists THEN NoFile ELSE dest
    /\ pc' = "replace"
    /\ UNCHANGED <<tmp, ret, faults>>
    /\ ExportStepFrame

\* line 258: os.replace(tmp, path), one atomic rename; then line 263
ExportReplace ==
    /\ pc = "replace"
    /\ dest' = tmp
    /\ tmp' = NoFile
    /\ pc' = "idle"
    /\ ret' = "exported"
    /\ UNCHANGED faults
    /\ ExportStepFrame

\* lines 259-261: to_csv, os.remove or os.replace raises; the handler
\* reports the error and returns, the files stay as they are
ExportIOError ==
    /\ \/ pc \in {"open_tmp", "writing", "replace"}
       \/ pc = "exists" /\ dest.exists
    /\ faults < MaxFaults
    /\ faults' = faults + 1
    /\ pc' = "idle"
    /\ ret' = "export_error"
    /\ UNCHANGED <<dest, tmp>>
    /\ ExportStepFrame

\* the process dies inside the write sequence: memory is lost, files stay
Crash ==
    /\ pc \in {"open_tmp", "writing", "exists", "replace"}
    /\ faults < MaxFaults
    /\ faults' = faults + 1
    /\ pc' = "crashed"
    /\ hasTab' = FALSE
    /\ df' = EmptyDf
    /\ total' = update_total(EmptyDf)
    /\ path' = <<>>
    /\ bad' = <<>>
    /\ shown' = <<>>
    /\ op' = Op("crash", 0, 0)
    /\ ret' = "none"
    /\ UNCHANGED <<work, dest, tmp, dest0, edits, exports>>
    /\ UNCHANGED moneyVars

\* the program is started again: MainWindow.__init__, main.py 279-303
Restart ==
    /\ pc = "crashed"
    /\ pc' = "idle"
    /\ FreshTab
    /\ op' = Op("restart", 0, 0)
    /\ ret' = "none"
    /\ UNCHANGED <<work, bad, shown, dest, tmp, dest0, edits, exports, faults>>
    /\ UNCHANGED moneyVars

----------------------------------------------------------------------------
(* The program.                                                            *)

\* the record store and its handlers
Next ==
    \/ \E r \in 0..(MaxRows - 1), e \in StoreEdits : SetData(TRUE, r, e[1], e[2])
    \/ SetData(FALSE, 0 - 1, "PO_No.", <<>>)
    \/ \E position \in 0..MaxRows, rows \in 1..2 : InsertRows(position, rows)
    \/ \E position \in (0 - 1)..MaxRows, rows \in 1..2 : RemoveRows(position, rows)
    \/ \E position \in 0..MaxRows : AddRow(position)
    \/ \E r \in (0 - 1)..(MaxRows - 1) : DeleteSelected(r)
    \/ \E k \in StoreImports : LoadData(k)
    \/ \E k \in 0..Len(Profiles) : LoadProfile(k)
    \/ AddCompanyTab
    \/ RemoveTab

Spec == Init /\ [][Next]_vars

\* the export of a store filled by import and by the "+ Add" button
NextExport ==
    \/ AddRow(NRows(df))
    \/ \E k \in ExportImports : LoadData(k)
    \/ \E sel \in DialogPaths : ChoosePath(sel)
    \/ \E p \in TypedPaths : TypePath(p)
    \/ ExportBegin
    \/ ExportOpenTmp
    \/ ExportWriteRow
    \/ ExportCloseTmp
    \/ ExportRemoveOld
    \/ ExportReplace
    \/ ExportIOError
    \/ Crash
    \/ Restart

\* the file an earlier session left at the destination, if any
PriorFile == WholeFile(ExportCopy(ImportFrame(ImportFiles[1]).rows))

InitExport ==
    /\ hasTab = TRUE
    /\ df = EmptyDf
    /\ total = update_total(EmptyDf)
    /\ path = <<>>
    /\ pc = "idle"
    /\ work = <<>>
    /\ bad = <<>>
    /\ shown = <<>>
    /\ dest \in {NoFile, PriorFile}
    /\ tmp = NoFile
    /\ dest0 = dest
    /\ op = Op("init", 0, 0)
    /\ ret = "none"
    /\ edits = 0
    /\ exports = 0
    /\ faults = 0
    /\ MoneyOff

SpecExport == InitExport /\ [][NextExport]_vars

----------------------------------------------------------------------------
(* money_to_csv as a function of its input: every text of up to MaxLen     *)
(* characters over the characters it treats specially.                     *)

MoneyAlphabet == {"1", ".", ",", " ", "NBSP", "TAB", "#"}
Texts(A, n) == UNION {[1..k -> A] : k \in 0..n}

InitMoney ==
    /\ hasTab = TRUE
    /\ df = EmptyDf
    /\ total = update_total(EmptyDf)
    /\ path = <<>>
    /\ pc = "idle"
    /\ work = <<>>
    /\ bad = <<>>
    /\ shown = <<>>
    /\ dest = NoFile
    /\ tmp = NoFile
    /\ dest0 = NoFile
    /\ op = Op("init", 0, 0)
    /\ ret = "none"
    /\ edits = 0
    /\ exports = 0
    /\ faults = 0
    /\ m_in \in Texts(MoneyAlphabet, MaxLen)
    /\ m_once = <<>>
    /\ m_twice = <<>>
    /\ m_pc = "in"

MoneyFrame ==
    /\ UNCHANGED storeVars
    /\ UNCHANGED exportVars

\* money_to_csv(s)
MoneyOnce ==
    /\ m_pc = "in"
    /\ m_once' = money_to_csv(StrV(m_in))
    /\ m_pc' = "once"
    /\ UNCHANGED <<m_in, m_twice>>
    /\ MoneyFrame

\* money_to_csv(money_to_csv(s))
MoneyTwice ==
    /\ m_pc = "once"
    /\ m_twice' = money_to_csv(StrV(m_once))
    /\ m_pc' = "twice"
    /\ UNCHANGED <<m_in, m_once>>
    /\ MoneyFrame

NextMoney == MoneyOnce \/ MoneyTwice

SpecMoney == InitMoney /\ [][NextMoney]_vars

----------------------------------------------------------------------------
(* The claims.                                                             *)

\* C1: at every point of the write sequence of export_csv, after an I/O
\* error and after a crash, the destination holds the complete file it held
\* when the export began, the complete new file, or no file; it is never a
\* partly written file.  (SpecExport)
C1_DestinationNeverPartial ==
    /\ dest.exists => dest.complete
    /\ \/ dest = NoFile
       \/ dest = dest0
       \/ dest = WholeFile(work)

\* a crash in the middle of to_csv: the temporary file is partly written and
\* the old destination file is still whole
C1_Witness ==
    /\ pc = "crashed"
    /\ tmp.exists /\ ~tmp.complete /\ Len(tmp.data) >= 1
    /\ dest0.exists /\ dest = dest0

\* C2: when export_csv ends with an I/O error, a destination file that
\* existed before the export is still there with its content.  (SpecExport)
C2_ErrorKeepsOldFile ==
    (op.name = "export_csv" /\ ret = "export_error" /\ dest0.exists) => dest = dest0

\* the sum the label must show: every row whose normalised amount is a
\* number counts, every other row counts 0
RECURSIVE SumOver(_, _)
SumOver(rows, S) ==
    IF S = {} THEN 0
    ELSE LET i == CHOOSE j \in S : TRUE
             f == PyFloat(money_to_csv(rows[i]["Amount"]))
         IN  (IF f.ok THEN f.val ELSE 0) + SumOver(rows, S \ {i})

\* C3: after every mutation of the store the label shows the sum of the
\* normalised amounts of exactly the rows whose amount parses.  (Spec)
C3_TotalIsSumOfParsable ==
    hasTab => total = FormatTotal(SumOver(df.rows, 1..NRows(df)))

\* a cell edit on a store with two parsable amounts and an unparsable one:
\* 1000.50 + 5.50, "abc" skipped
C3_Witness ==
    /\ op.name = "setData" /\ ret = "True"
    /\ \E i \in 1..NRows(df) :
          /\ Strip(PyStr(df.rows[i]["Amount"])) # <<>>
          /\ ~PyFloat(money_to_csv(df.rows[i]["Amount"])).ok
    /\ total = <<"T", "o", "t", "a", "l", ":", " ",
                 "1", ".", "0", "0", "6", ",", "0", "0">>

\* C4 as stated: money_to_csv(money_to_csv(s)) = money_to_csv(s) for every
\* s.  (SpecMoney)
C4_Idempotent == m_pc = "twice" => m_twice = m_once

\* C4 as amended: money_to_csv(money_to_csv(s)) = money_to_csv(s) exactly
\* when money_to_csv(s) holds no "." and no leading or trailing whitespace.
\* (SpecMoney)
C4_IdempotentIffNoDot ==
    m_pc = "twice" =>
        ((m_twice = m_once) <=>
            ((\A i \in 1..Len(m_once) : m_once[i] # ".") /\ Strip(m_once) = m_once))

\* "1,1" becomes "1.1", and "1.1" becomes "11"
C4_Witness ==
    /\ m_pc = "twice"
    /\ m_in = <<"1", ",", "1">>
    /\ m_once = <<"1", ".", "1">>
    /\ m_twice = <<"1", "1">>

\* C5: removeRows at a position below 0 or at or past the size returns
\* False and leaves the store and the total as they were.  (Spec)
C5_RemoveOutOfRangeRejected ==
    [][(op'.name = "removeRows" /\ (op'.a < 0 \/ op'.a >= NRows(df)))
          => (ret' = "False" /\ df' = df /\ total' = total)]_vars

\* removeRows called with position = size on a store that has rows
C5_Witness ==
    /\ op.name = "removeRows" /\ ret = "False"
    /\ NRows(df) >= 1
    /\ op.a = NRows(df)

\* C6: after one record is inserted at p (insertRows, or add_row with its
\* PO_No. fill), removeRows(p, 1) is accepted and gives back the store as it
\* was before the insert, labels 0..size-1 included.  (Spec)
C6_InsertThenRemoveRestores ==
    [][(op'.name \in {"insertRows", "add_row"} /\ op'.b = 1)
          => /\ df'.index = RangeIndex(NRows(df) + 1)
             /\ ~removeRows_rejects(df', op'.a)
             /\ RemoveRowsDf(df', op'.a, 1) = df]_vars

\* add_row in front of a record that has content: the record moved down
C6_Witness ==
    /\ op.name = "add_row"
    /\ op.a + 2 <= NRows(df)
    /\ df.rows[op.a + 2] # BlankRow
    /\ df.rows[op.a + 1]["PO_No."] # StrV(<<>>)

\* C7: no step of export_csv changes the store, whether it ends exported,
\* on the missing path or on an I/O error, and a load_data that raises
\* leaves the store as it was.  (SpecExport)
C7_ExportAndFailedImportKeepStore ==
    [][(op'.name = "export_csv" \/ (op'.name = "load_data" /\ ret' = "import_error"))
          => (df' = df /\ hasTab' = hasTab /\ total' = total)]_vars

\* a failed import on a store whose export is at the destination and whose
\* exported text differs from the stored text
C7_Witness ==
    /\ op.name = "load_data" /\ ret = "import_error"
    /\ NRows(df) >= 1
    /\ dest = WholeFile(ExportCopy(df.rows))
    /\ dest.data # Render(df.rows)

\* the shape the claim names: RO in either case, then two or more letters
\* or digits
RoShape(s) ==
    /\ Len(s) >= 4
    /\ ToLower(SubSeq(s, 1, 2)) = <<"r", "o">>
    /\ \A i \in 3..Len(s) : s[i] \in UpperSet \cup LowerSet \cup DigitSet

C8_WarningsExact ==
    (op.name = "export_csv" /\ ret # "no_path") =>
        /\ {bad[k] : k \in 1..Len(bad)} =
              {<<i, c>> \in (1..Len(work)) \X {"Payer Account IBAN", "Payee Account IBAN"} :
                  PyStr(work[i][c]) # <<>> /\ ~RoShape(PyStr(work[i][c]))}
        /\ \A k, l \in 1..Len(bad) : bad[k] = bad[l] => k = l
        /\ ret = "exported" => dest = WholeFile(work)

C8_WarningsNeverBlock ==
    (op'.name = "export_csv" /\ pc = "idle" /\ Strip(path) # <<>>) => pc' = "open_tmp"

\* C8: with a destination path, the warnings are exactly the non-empty
\* payer and payee values of the export copy that lack the RO shape, the
\* export goes on to the write step whatever was collected, and when the
\* write sequence ends the destination is the new file.  (SpecExport)
C8_WarningsCollectedNeverBlock ==
    []C8_WarningsExact /\ [][C8_WarningsNeverBlock]_vars

\* an export that collected three warnings and was written
C8_Witness ==
    /\ op.name = "export_csv" /\ ret = "exported"
    /\ bad = << <<2, "Payer Account IBAN">>, <<3, "Payer Account IBAN">>,
                <<1, "Payee Account IBAN">> >>
    /\ PyStr(work[1]["Payer Account IBAN"]) = <<"r", "o", "1", "x">>
    /\ dest = WholeFile(work)

\* C9: after load_profile the store holds every row array of the profile,
\* cut or padded with empty text to the 14 columns.  (Spec)
C9_ProfileRowsCoerced ==
    (/\ op.name = "load_profile"
     /\ op.a >= 1
     /\ Profiles[op.a].readable
     /\ Profiles[op.a].comps # <<>>)
    => LET rows == Profiles[op.a].comps[1].rows
       IN  /\ hasTab
           /\ df.rows =
                [i \in 1..Len(rows) |->
                    [c \in ColSet |->
                        LET j == CHOOSE k \in 1..NCols : COLUMNS[k] = c
                        IN  IF j <= Len(rows[i]) THEN rows[i][j] ELSE StrV(<<>>)]]

\* C10: add_row at p > 0 sets PO_No. of the new record to the predecessor's
\* value plus one when that is a string of digits, and to p + 1 otherwise.
\* (Spec)
C10_AddRowIncrementsPO ==
    (op.name = "add_row" /\ op.a > 0) =>
        LET prev == PyStr(df.rows[op.a]["PO_No."])
        IN  df.rows[op.a + 1]["PO_No."] =
                IntV(IF IsDigitStr(prev) THEN StrToInt(prev) + 1 ELSE op.a + 1)

====
